---- MODULE Spec2Model ----
(***************************************************************************)
(* Model of the recovery parser of llmjsonrepair (pkg/parser.go, given as  *)
(* src/unnamed/part_001) and of its entry points (src/pkg/jsonrepair.go).  *)
(*                                                                         *)
(* The input is a sequence of code points (one-character strings).  The    *)
(* cursor p.index is 0-based as in the source; jsonStr[index + 1] is the   *)
(* code point under the cursor.  The Go call stack is the variable frames: *)
(* one record per active call, the callee on top.                          *)
(***************************************************************************)
EXTENDS Integers, Sequences, FiniteSets, TLC

VARIABLES jsonStr, index, context, frames, ret, result, done, fault, nullLit, recovered

vars == <<jsonStr, index, context, frames, ret, result, done, fault, nullLit, recovered>>

(***************************************************************************)
(* Code points and their classes (unicode.IsSpace, IsDigit, IsLetter,      *)
(* restricted to the code points the model uses).                          *)
(***************************************************************************)
SpaceChars == {" ", "\t", "\n", "\r", "\f"}

DigitChars == <<"0", "1", "2", "3", "4", "5", "6", "7", "8", "9">>

LetterChars ==
    {"a", "b", "c", "d", "e", "f", "g", "h", "i", "j", "k", "l", "m", "n", "o",
     "p", "q", "r", "s", "t", "u", "v", "w", "x", "y", "z",
     "A", "B", "C", "D", "E", "F", "G", "H", "I", "J", "K", "L", "M", "N", "O",
     "P", "Q", "R", "S", "T", "U", "V", "W", "X", "Y", "Z"}

IsSpace(c) == c \in SpaceChars

IsDigit(c) == \E n \in 1..Len(DigitChars) : DigitChars[n] = c

IsLetter(c) == c \in LetterChars

DigitVal(c) == (CHOOSE n \in 1..Len(DigitChars) : DigitChars[n] = c) - 1

\* The zero rune that getChar returns with ok = false.
NoRune == ""

(***************************************************************************)
(* Recovered values (interface{}): one record shape for every kind.        *)
(*   nil    Go nil: the null literal and "no value" alike                  *)
(*   bool   s = <<"true">> or <<"false">>                                  *)
(*   str    s = the code points                                            *)
(*   int    s = canonical decimal digits, "-" first when negative          *)
(*   float  s = canonical mantissa digits ("-" first), e = decimal exponent*)
(*   arr    a = the elements ([]interface{}, also the multi-value result)  *)
(*   obj    o = the members, sequence of [k, v] in first-insertion order   *)
(***************************************************************************)
MkVal(t, s, e, a, o) == [t |-> t, s |-> s, e |-> e, a |-> a, o |-> o]

Nil == MkVal("nil", <<>>, 0, <<>>, <<>>)
BoolV(b) == MkVal("bool", IF b THEN <<"true">> ELSE <<"false">>, 0, <<>>, <<>>)
StrV(s) == MkVal("str", s, 0, <<>>, <<>>)
IntV(s) == MkVal("int", s, 0, <<>>, <<>>)
FloatV(s, e) == MkVal("float", s, e, <<>>, <<>>)
ArrV(a) == MkVal("arr", <<>>, 0, a, <<>>)
ObjV(o) == MkVal("obj", <<>>, 0, <<>>, o)

\* obj[key] = value on a Go map: last write wins.
MapPut(o, key, value) ==
    IF \E n \in 1..Len(o) : o[n].k = key
    THEN [n \in 1..Len(o) |-> IF o[n].k = key THEN [k |-> key, v |-> value] ELSE o[n]]
    ELSE Append(o, [k |-> key, v |-> value])

(***************************************************************************)
(* Cursor utilities.                                                       *)
(***************************************************************************)
getChar(s, i, offset) ==
    IF i + offset >= Len(s) \/ i + offset < 0
    THEN [c |-> NoRune, ok |-> FALSE]
    ELSE [c |-> s[i + offset + 1], ok |-> TRUE]

RECURSIVE skipWhitespace(_, _)
skipWhitespace(s, i) ==
    LET g == getChar(s, i, 0)
    IN  IF ~g.ok \/ ~IsSpace(g.c) THEN i ELSE skipWhitespace(s, i + 1)

\* strings.HasPrefix(string(p.jsonStr[p.index:]), lit)
HasPrefix(s, i, lit) ==
    /\ i + Len(lit) <= Len(s)
    /\ \A n \in 1..Len(lit) : s[i + n] = lit[n]

(***************************************************************************)
(* Context stack.                                                          *)
(***************************************************************************)
inArray == "inArray"
inObjectKey == "inObjectKey"
inObjectValue == "inObjectValue"

push(stack, val) == Append(stack, val)

popGuardOff(stack) == IF Len(stack) > 1 THEN SubSeq(stack, 1, Len(stack) - 1) ELSE stack

pop(stack) == IF Len(stack) > 0 THEN SubSeq(stack, 1, Len(stack) - 1) ELSE stack

current(stack) ==
    IF Len(stack) = 0
    THEN [ctx |-> inArray, ok |-> FALSE]
    ELSE [ctx |-> stack[Len(stack)], ok |-> TRUE]

\* p.context.stack[len(p.context.stack)-1] = val
setTop(stack, val) == [stack EXCEPT ![Len(stack)] = val]

(***************************************************************************)
(* parseString (part_001:235-317).                                         *)
(***************************************************************************)
\* '\b', which TLA+ strings cannot spell.
BackspaceRune == "<BS>"

\* The switch on the code point after a backslash.
Unescape(c) ==
    CASE c \in {"\"", "\\", "/", "'"} -> <<c>>
      [] c = "b" -> <<BackspaceRune>>
      [] c = "f" -> <<"\f">>
      [] c = "n" -> <<"\n">>
      [] c = "r" -> <<"\r">>
      [] c = "t" -> <<"\t">>
      [] OTHER -> <<"\\", c>>

\* The cutset of strings.TrimRight(sb.String(), " \t\n\r").
TrimCutset == {" ", "\t", "\n", "\r"}

RECURSIVE TrimRight(_)
TrimRight(sb) ==
    IF Len(sb) > 0 /\ sb[Len(sb)] \in TrimCutset
    THEN TrimRight(SubSeq(sb, 1, Len(sb) - 1))
    ELSE sb

\* Does code point c end a quote-missing string under this context stack?
TerminatesAnyContext(stack, c) == c \in {",", "}", "]", ":"}

Terminates(stack, c) ==
    LET cur == current(stack)
    IN  IF cur.ok
        THEN \/ cur.ctx = inObjectKey /\ c = ":"
             \/ cur.ctx \in {inObjectValue, inArray} /\ c \in {",", "}", "]"}
        ELSE c \in {",", "}", "]", ":"}

\* The scan loop: the cursor it stops at and the text accumulated.
RECURSIVE ScanLoop(_, _, _, _, _, _)
ScanLoop(s, i, startQuote, missingQuotes, stack, sb) ==
    LET g == getChar(s, i, 0)
        n == getChar(s, i + 1, 0)
    IN  IF ~g.ok THEN [idx |-> i, sb |-> sb]
        ELSE IF g.c = "\\"
        THEN IF ~n.ok THEN [idx |-> i + 1, sb |-> sb]
             ELSE ScanLoop(s, i + 2, startQuote, missingQuotes, stack, sb \o Unescape(n.c))
        ELSE IF ~missingQuotes /\ g.c = startQuote THEN [idx |-> i + 1, sb |-> sb]
        ELSE IF missingQuotes /\ Terminates(stack, g.c) THEN [idx |-> i, sb |-> sb]
        ELSE ScanLoop(s, i + 1, startQuote, missingQuotes, stack, Append(sb, g.c))

parseStringErrOnOpen(s, i, stack) ==
    LET i1 == skipWhitespace(s, i)
        g == getChar(s, i1, 0)
        missingQuotes == ~(g.c \in {"\"", "'"})
        r == ScanLoop(s, IF missingQuotes THEN i1 ELSE i1 + 1, g.c, missingQuotes, stack, <<>>)
    IN  IF ~g.ok THEN [v |-> StrV(<<>>), idx |-> i1, err |-> FALSE]
        ELSE [v |-> StrV(IF missingQuotes THEN TrimRight(r.sb) ELSE r.sb), idx |-> r.idx,
              err |-> ~missingQuotes /\ (r.idx = 0 \/ s[r.idx] # g.c)]

parseString(s, i, stack) ==
    LET i1 == skipWhitespace(s, i)
        g == getChar(s, i1, 0)
        missingQuotes == ~(g.c \in {"\"", "'"})
        r == ScanLoop(s, IF missingQuotes THEN i1 ELSE i1 + 1, g.c, missingQuotes, stack, <<>>)
    IN  IF ~g.ok THEN [v |-> StrV(<<>>), idx |-> i1, err |-> FALSE]
        ELSE [v |-> StrV(IF missingQuotes THEN TrimRight(r.sb) ELSE r.sb), idx |-> r.idx,
              err |-> FALSE]

(***************************************************************************)
(* parseNumber (part_001:320-343) with strconv.ParseInt(numStr, 10, 64)    *)
(* and strconv.ParseFloat(numStr, 64) on the captured run.  Numbers are    *)
(* kept as canonical decimal text, so no machine integer overflows; a      *)
(* float is its decimal value (binary rounding of the mantissa is not      *)
(* modelled).                                                              *)
(***************************************************************************)
IsNumberCharNoSign(c) == IsDigit(c) \/ c \in {".", "e", "E"}

IsNumberChar(c) == IsDigit(c) \/ c \in {".", "-", "e", "E"}

RECURSIVE NumberRunEnd(_, _)
NumberRunEnd(s, i) ==
    LET g == getChar(s, i, 0)
    IN  IF ~g.ok \/ ~IsNumberChar(g.c) THEN i ELSE NumberRunEnd(s, i + 1)

Contains(numStr, c) == \E n \in 1..Len(numStr) : numStr[n] = c

RECURSIVE StripLeadingZeros(_)
StripLeadingZeros(d) ==
    IF Len(d) > 0 /\ d[1] = "0" THEN StripLeadingZeros(Tail(d)) ELSE d

RECURSIVE TrailingZeros(_)
TrailingZeros(d) ==
    IF Len(d) > 0 /\ d[Len(d)] = "0" THEN 1 + TrailingZeros(SubSeq(d, 1, Len(d) - 1)) ELSE 0

\* a < b for digit sequences; the shorter is padded with zeros on the right.
RECURSIVE DigitsLess(_, _)
DigitsLess(a, b) ==
    IF Len(a) = 0 /\ Len(b) = 0 THEN FALSE
    ELSE LET x == IF Len(a) = 0 THEN 0 ELSE DigitVal(a[1])
             y == IF Len(b) = 0 THEN 0 ELSE DigitVal(b[1])
         IN  IF x # y THEN x < y
             ELSE DigitsLess(IF Len(a) = 0 THEN a ELSE Tail(a), IF Len(b) = 0 THEN b ELSE Tail(b))

AllDigits(d) == \A n \in 1..Len(d) : IsDigit(d[n])

\* 1<<63 - 1 and 1<<63, the int64 range strconv.ParseInt checks.
MaxInt64Digits == <<"9","2","2","3","3","7","2","0","3","6","8","5","4","7","7","5","8","0","7">>
MinInt64Digits == <<"9","2","2","3","3","7","2","0","3","6","8","5","4","7","7","5","8","0","8">>

\* strconv.ParseInt(numStr, 10, 64): [ok, v].
ParseInt(numStr) ==
    LET neg == Len(numStr) > 0 /\ numStr[1] = "-"
        body == IF neg THEN Tail(numStr) ELSE numStr
        mag == StripLeadingZeros(body)
        limit == IF neg THEN MinInt64Digits ELSE MaxInt64Digits
        inRange == \/ Len(mag) < Len(limit)
                   \/ Len(mag) = Len(limit) /\ ~DigitsLess(limit, mag)
    IN  IF Len(body) = 0 \/ ~AllDigits(body) \/ ~inRange
        THEN [ok |-> FALSE, v |-> Nil]
        ELSE [ok |-> TRUE,
              v |-> IntV(IF Len(mag) = 0 THEN <<"0">>
                         ELSE IF neg THEN <<"-">> \o mag ELSE mag)]

RECURSIVE DigitRunEnd(_, _)
\* First position >= p (1-based) of d that holds no digit.
DigitRunEnd(d, p) ==
    IF p <= Len(d) /\ IsDigit(d[p]) THEN DigitRunEnd(d, p + 1) ELSE p

\* The exponent readFloat accumulates (it stops growing at 10000).
RECURSIVE ExpVal(_, _)
ExpVal(d, acc) ==
    IF Len(d) = 0 THEN acc
    ELSE ExpVal(Tail(d), IF acc < 10000 THEN acc * 10 + DigitVal(d[1]) ELSE acc)

\* The largest finite float64 rounds up from 1.797693134862315807e308.
MaxFloat64Digits == <<"1","7","9","7","6","9","3","1","3","4","8","6","2","3","1","5","8","0","7">>

\* strconv.ParseFloat(numStr, 64) on a run of digits, '.', '-', 'e', 'E': [ok, v].
ParseFloat(numStr) ==
    LET neg == Len(numStr) > 0 /\ numStr[1] = "-"
        p1 == IF neg THEN 2 ELSE 1
        p2 == DigitRunEnd(numStr, p1)
        hasDot == p2 <= Len(numStr) /\ numStr[p2] = "."
        p3 == IF hasDot THEN DigitRunEnd(numStr, p2 + 1) ELSE p2
        intDigits == SubSeq(numStr, p1, p2 - 1)
        fracDigits == IF hasDot THEN SubSeq(numStr, p2 + 1, p3 - 1) ELSE <<>>
        hasExp == p3 <= Len(numStr) /\ numStr[p3] \in {"e", "E"}
        eneg == hasExp /\ p3 + 1 <= Len(numStr) /\ numStr[p3 + 1] = "-"
        p4 == IF ~hasExp THEN p3 ELSE IF eneg THEN p3 + 2 ELSE p3 + 1
        p5 == IF hasExp THEN DigitRunEnd(numStr, p4) ELSE p3
        expDigits == SubSeq(numStr, p4, p5 - 1)
        syntaxOk == /\ Len(intDigits) + Len(fracDigits) > 0
                    /\ hasExp => Len(expDigits) > 0
                    /\ p5 = Len(numStr) + 1
        expo == IF eneg THEN 0 - ExpVal(expDigits, 0) ELSE ExpVal(expDigits, 0)
        all == StripLeadingZeros(intDigits \o fracDigits)
        tz == TrailingZeros(all)
        mant == SubSeq(all, 1, Len(all) - tz)
        exp10 == expo - Len(fracDigits) + tz
        magnitude == Len(mant) + exp10
        overflow == /\ Len(mant) > 0
                    /\ \/ magnitude > 309
                       \/ magnitude = 309 /\ ~DigitsLess(mant, MaxFloat64Digits)
        underflow == Len(mant) = 0 \/ magnitude < 0 - 323
    IN  IF ~syntaxOk \/ overflow THEN [ok |-> FALSE, v |-> Nil]
        ELSE [ok |-> TRUE,
              v |-> IF underflow THEN FloatV(IF neg THEN <<"-", "0">> ELSE <<"0">>, 0)
                    ELSE FloatV(IF neg THEN <<"-">> \o mant ELSE mant, exp10)]

parseNumber(s, i) ==
    LET j == NumberRunEnd(s, i)
        numStr == SubSeq(s, i + 1, j)
        isFloat == Contains(numStr, ".") \/ Contains(numStr, "e") \/ Contains(numStr, "E")
        conv == IF isFloat THEN ParseFloat(numStr) ELSE ParseInt(numStr)
    IN  [v |-> IF conv.ok THEN conv.v ELSE StrV(numStr), idx |-> j, err |-> FALSE]

(***************************************************************************)
(* parseBooleanOrNull (part_001:346-361).                                  *)
(***************************************************************************)
\* The literal strings.HasPrefix finds at the cursor, in the order tried.
MatchLiteral(s, i) ==
    IF HasPrefix(s, i, <<"t", "r", "u", "e">>)
    THEN [hit |-> TRUE, v |-> BoolV(TRUE), n |-> 4]
    ELSE IF HasPrefix(s, i, <<"f", "a", "l", "s", "e">>)
    THEN [hit |-> TRUE, v |-> BoolV(FALSE), n |-> 5]
    ELSE IF HasPrefix(s, i, <<"n", "u", "l", "l">>)
    THEN [hit |-> TRUE, v |-> Nil, n |-> 4]
    ELSE [hit |-> FALSE, v |-> Nil, n |-> 0]

(***************************************************************************)
(* The switch of parseJSON (part_001:106-124): which branch a code point   *)
(* takes under the current context stack.                                  *)
(***************************************************************************)
Dispatch(c, stack) ==
    CASE c = "{" -> "object"
      [] c = "[" -> "array"
      [] c \in {"\"", "'"} -> "string"
      [] IsDigit(c) \/ c = "-" -> "number"
      [] c \in {"t", "f", "n"} -> "literal"
      [] /\ IsLetter(c)
         /\ current(stack).ok
         /\ current(stack).ctx \in {inObjectValue, inArray, inObjectKey} -> "letter"
      [] OTHER -> "skip"

(***************************************************************************)
(* The call stack.  A frame: the function, where it stands, its local      *)
(* value under construction (obj, arr or results), the key just read, and  *)
(* i0, the cursor when the call (parseJSON) or the loop iteration began.   *)
(***************************************************************************)
Frame(fn, pc, v, key, i0) == [fn |-> fn, pc |-> pc, v |-> v, key |-> key, i0 |-> i0]

Top == frames[Len(frames)]

Popped == SubSeq(frames, 1, Len(frames) - 1)

\* The caller moves to f and the callee's frame goes on top.
Call(f, callee) == Append(Popped, f) \o <<callee>>

At(fn, pc) == ~done /\ Len(frames) > 0 /\ Top.fn = fn /\ Top.pc = pc

Ret(v, err) == [v |-> v, err |-> err]

(***************************************************************************)
(* Inputs.                                                                 *)
(***************************************************************************)
MaxLen == 3

Alphabet ==
    {"{", "}", "[", "]", ",", ":", "\"", "'", "\\", " ", "1", "-", ".", "e", "n", "a", "@"}

RECURSIVE SeqsUpTo(_)
SeqsUpTo(n) ==
    IF n = 0 THEN {<<>>}
    ELSE LET shorter == SeqsUpTo(n - 1)
         IN  shorter \cup {Append(s, c) : s \in {x \in shorter : Len(x) = n - 1}, c \in Alphabet}

\* Every sequence over Alphabet of at most MaxLen code points.
ShortInputs == SeqsUpTo(MaxLen)

(***************************************************************************)
(* Longer inputs: the examples of the README, of example/main.go and of    *)
(* the specification, and inputs that reach the branches short ones miss.  *)
(***************************************************************************)
\* {"name": "John Doe", "age": 30, "courses": ["Math", "Science"   (example/main.go:20)
ExMissingClosers ==
    <<"{", "\"", "n", "a", "m", "e", "\"", ":", " ", "\"", "J", "o", "h", "n", " ", "D",
      "o", "e", "\"", ",", " ", "\"", "a", "g", "e", "\"", ":", " ", "3", "0", ",", " ",
      "\"", "c", "o", "u", "r", "s", "e", "s", "\"", ":", " ", "[", "\"", "M", "a", "t",
      "h", "\"", ",", " ", "\"", "S", "c", "i", "e", "n", "c", "e", "\"">>

\* Here is the JSON: {"result": "success", "code": 200   (spec 8, last scenario)
ExProseJSON ==
    <<"H", "e", "r", "e", " ", "i", "s", " ", "t", "h", "e", " ", "J", "S", "O", "N", ":",
      " ", "{", "\"", "r", "e", "s", "u", "l", "t", "\"", ":", " ", "\"", "s", "u", "c",
      "c", "e", "s", "s", "\"", ",", " ", "\"", "c", "o", "d", "e", "\"", ":", " ", "2",
      "0", "0">>

\* Here is the response: {"result": "success", "code": 200   (README example 5)
ExProseResponse ==
    <<"H", "e", "r", "e", " ", "i", "s", " ", "t", "h", "e", " ", "r", "e", "s", "p", "o",
      "n", "s", "e", ":", " ", "{", "\"", "r", "e", "s", "u", "l", "t", "\"", ":", " ",
      "\"", "s", "u", "c", "c", "e", "s", "s", "\"", ",", " ", "\"", "c", "o", "d", "e",
      "\"", ":", " ", "2", "0", "0">>

\* {"message": "Hello World, "status": "ok"}   (README example 3)
ExUnclosedString ==
    <<"{", "\"", "m", "e", "s", "s", "a", "g", "e", "\"", ":", " ", "\"", "H", "e", "l",
      "l", "o", " ", "W", "o", "r", "l", "d", ",", " ", "\"", "s", "t", "a", "t", "u", "s",
      "\"", ":", " ", "\"", "o", "k", "\"", "}">>

\* {name: "Alice", age: 30, active: true}   (README example 2)
ExUnquotedKeys ==
    <<"{", "n", "a", "m", "e", ":", " ", "\"", "A", "l", "i", "c", "e", "\"", ",", " ",
      "a", "g", "e", ":", " ", "3", "0", ",", " ", "a", "c", "t", "i", "v", "e", ":", " ",
      "t", "r", "u", "e", "}">>

\* ["string1", item2, 3, "item4   (example/main.go:55)
ExMixedArray ==
    <<"[", "\"", "s", "t", "r", "i", "n", "g", "1", "\"", ",", " ", "i", "t", "e", "m",
      "2", ",", " ", "3", ",", " ", "\"", "i", "t", "e", "m", "4">>

\* {"": "empty key", "key_with_missing_value":, "another_key": "value"}   (example/main.go:50)
ExMissingValue ==
    <<"{", "\"", "\"", ":", " ", "\"", "e", "m", "p", "t", "y", " ", "k", "e", "y", "\"",
      ",", " ", "\"", "k", "e", "y", "_", "w", "i", "t", "h", "_", "m", "i", "s", "s", "i",
      "n", "g", "_", "v", "a", "l", "u", "e", "\"", ":", ",", " ", "\"", "a", "n", "o",
      "t", "h", "e", "r", "_", "k", "e", "y", "\"", ":", " ", "\"", "v", "a", "l", "u",
      "e", "\"", "}">>

\* [[1, @], 2]   (an element after the inner closer)
ExInnerGarbage ==
    <<"[", "[", "1", ",", " ", "@", "]", ",", " ", "2", "]">>

\* [{"k": }, 2]   (a member whose value is missing before the closer)
ExValueCloser ==
    <<"[", "{", "\"", "k", "\"", ":", " ", "}", ",", " ", "2", "]">>

\* {"id": 1, "type": "start"}{"id": 2, "type": "update", "data": {"progress": 50   (README example 4)
ExStream ==
    <<"{", "\"", "i", "d", "\"", ":", " ", "1", ",", " ", "\"", "t", "y", "p", "e", "\"",
      ":", " ", "\"", "s", "t", "a", "r", "t", "\"", "}", "{", "\"", "i", "d", "\"", ":",
      " ", "2", ",", " ", "\"", "t", "y", "p", "e", "\"", ":", " ", "\"", "u", "p", "d",
      "a", "t", "e", "\"", ",", " ", "\"", "d", "a", "t", "a", "\"", ":", " ", "{", "\"",
      "p", "r", "o", "g", "r", "e", "s", "s", "\"", ":", " ", "5", "0">>

\* 1 null 2   (a null literal between two values)
ExNullBetween ==
    <<"1", " ", "n", "u", "l", "l", " ", "2">>

\* null 1   (a null literal first)
ExNullFirst ==
    <<"n", "u", "l", "l", " ", "1">>

\* [] null7   (a value right after a null literal)
ExNullThenDigit ==
    <<"[", "]", " ", "n", "u", "l", "l", "7">>

\* [true, false, null] {"a": null, "b": false, "c": truthy}   (the three literals)
ExLiterals ==
    <<"[", "t", "r", "u", "e", ",", " ", "f", "a", "l", "s", "e", ",", " ", "n", "u", "l",
      "l", "]", " ", "{", "\"", "a", "\"", ":", " ", "n", "u", "l", "l", ",", " ", "\"",
      "b", "\"", ":", " ", "f", "a", "l", "s", "e", ",", " ", "\"", "c", "\"", ":", " ",
      "t", "r", "u", "t", "h", "y", "}">>

\* {"id": 1, "user": {name: "Alice", details: { "email": "alice@example.com", affiliations: ["Org1", "Org2   (example/main.go:25)
ExDeepNesting ==
    <<"{", "\"", "i", "d", "\"", ":", " ", "1", ",", " ", "\"", "u", "s", "e", "r", "\"",
      ":", " ", "{", "n", "a", "m", "e", ":", " ", "\"", "A", "l", "i", "c", "e", "\"",
      ",", " ", "d", "e", "t", "a", "i", "l", "s", ":", " ", "{", " ", "\"", "e", "m", "a",
      "i", "l", "\"", ":", " ", "\"", "a", "l", "i", "c", "e", "@", "e", "x", "a", "m",
      "p", "l", "e", ".", "c", "o", "m", "\"", ",", " ", "a", "f", "f", "i", "l", "i", "a",
      "t", "i", "o", "n", "s", ":", " ", "[", "\"", "O", "r", "g", "1", "\"", ",", " ",
      "\"", "O", "r", "g", "2">>

\* {"quote": "He said, \"This is a test.", "message": "Here's another quote: 'Hello World'   (example/main.go:30)
ExQuotes ==
    <<"{", "\"", "q", "u", "o", "t", "e", "\"", ":", " ", "\"", "H", "e", " ", "s", "a",
      "i", "d", ",", " ", "\\", "\"", "T", "h", "i", "s", " ", "i", "s", " ", "a", " ",
      "t", "e", "s", "t", ".", "\"", ",", " ", "\"", "m", "e", "s", "s", "a", "g", "e",
      "\"", ":", " ", "\"", "H", "e", "r", "e", "'", "s", " ", "a", "n", "o", "t", "h",
      "e", "r", " ", "q", "u", "o", "t", "e", ":", " ", "'", "H", "e", "l", "l", "o", " ",
      "W", "o", "r", "l", "d", "'">>

\* {user "John" age 30 city "New York" valid true   (example/main.go:40)
ExNoSeparators ==
    <<"{", "u", "s", "e", "r", " ", "\"", "J", "o", "h", "n", "\"", " ", "a", "g", "e",
      " ", "3", "0", " ", "c", "i", "t", "y", " ", "\"", "N", "e", "w", " ", "Y", "o", "r",
      "k", "\"", " ", "v", "a", "l", "i", "d", " ", "t", "r", "u", "e">>

\* {"data": {"key1": "value1", "key2": {"nested_key": "nested_value"   (example/main.go:45)
ExUnclosedObjects ==
    <<"{", "\"", "d", "a", "t", "a", "\"", ":", " ", "{", "\"", "k", "e", "y", "1", "\"",
      ":", " ", "\"", "v", "a", "l", "u", "e", "1", "\"", ",", " ", "\"", "k", "e", "y",
      "2", "\"", ":", " ", "{", "\"", "n", "e", "s", "t", "e", "d", "_", "k", "e", "y",
      "\"", ":", " ", "\"", "n", "e", "s", "t", "e", "d", "_", "v", "a", "l", "u", "e",
      "\"">>

\* Here is the JSON: {"reasoning": "The user wants a summary.", "result": {"summary": "This is a summary text...   (example/main.go:60)
ExThinking ==
    <<"H", "e", "r", "e", " ", "i", "s", " ", "t", "h", "e", " ", "J", "S", "O", "N", ":",
      " ", "{", "\"", "r", "e", "a", "s", "o", "n", "i", "n", "g", "\"", ":", " ", "\"",
      "T", "h", "e", " ", "u", "s", "e", "r", " ", "w", "a", "n", "t", "s", " ", "a", " ",
      "s", "u", "m", "m", "a", "r", "y", ".", "\"", ",", " ", "\"", "r", "e", "s", "u",
      "l", "t", "\"", ":", " ", "{", "\"", "s", "u", "m", "m", "a", "r", "y", "\"", ":",
      " ", "\"", "T", "h", "i", "s", " ", "i", "s", " ", "a", " ", "s", "u", "m", "m", "a",
      "r", "y", " ", "t", "e", "x", "t", ".", ".", ".">>

\* ["a\nb", "\u0041", c\, d , 'e\', f\   (escapes, quoted and not)
ExEscapes ==
    <<"[", "\"", "a", "\\", "n", "b", "\"", ",", " ", "\"", "\\", "u", "0", "0", "4", "1",
      "\"", ",", " ", "c", "\\", ",", " ", "d", " ", ",", " ", "'", "e", "\\", "'", ",",
      " ", "f", "\\">>

\* [1e999, 12345678901234567890, -0.50, 1.5e3, 1., -, 1-2, 007, 1e+5   (number conversions)
ExNumbers ==
    <<"[", "1", "e", "9", "9", "9", ",", " ", "1", "2", "3", "4", "5", "6", "7", "8", "9",
      "0", "1", "2", "3", "4", "5", "6", "7", "8", "9", "0", ",", " ", "-", "0", ".", "5",
      "0", ",", " ", "1", ".", "5", "e", "3", ",", " ", "1", ".", ",", " ", "-", ",", " ",
      "1", "-", "2", ",", " ", "0", "0", "7", ",", " ", "1", "e", "+", "5">>

\* @@@@@@ [#, 1] ;;   (runs of garbage)
ExGarbageRun ==
    <<"@", "@", "@", "@", "@", "@", " ", "[", "#", ",", " ", "1", "]", " ", ";", ";">>

\* [ab <FF>, cd<TAB>]  x:y, z   (whitespace outside the trim cutset; a bare token at top level)
ExFormFeed ==
    <<"[", "a", "b", " ", "\f", ",", " ", "c", "d", "\t", "]", " ", " ", "x", ":", "y",
      ",", " ", "z">>

Examples ==
    {ExMissingClosers, ExProseJSON, ExProseResponse, ExUnclosedString,
     ExUnquotedKeys, ExMixedArray, ExMissingValue, ExInnerGarbage, ExValueCloser,
     ExStream, ExNullBetween, ExNullFirst, ExNullThenDigit, ExLiterals,
     ExDeepNesting, ExQuotes, ExNoSeparators, ExUnclosedObjects, ExThinking,
     ExEscapes, ExNumbers, ExGarbageRun, ExFormFeed}

(***************************************************************************)
(* Valid JSON documents cut off right after a complete element or member   *)
(* value.  A document is its open objects/arrays from the outermost in;    *)
(* each holds complete values (text and the value strict JSON gives it)    *)
(* and, except the innermost, the next open one as its last entry.         *)
(***************************************************************************)
CompleteValues ==
    {[text |-> <<"1">>, v |-> IntV(<<"1">>)],
     [text |-> <<"\"", "a", "\"">>, v |-> StrV(<<"a">>)],
     [text |-> <<"n", "u", "l", "l">>, v |-> Nil],
     [text |-> <<"1", "e", "+", "2">>, v |-> FloatV(<<"1">>, 2)],
     [text |-> <<"[", "t", "r", "u", "e", "]">>, v |-> ArrV(<<BoolV(TRUE)>>)]}

Kinds == {"obj", "arr"}

\* Key of the n-th complete member of an object, and of its open member.
MemberKey(n) == <<"k", DigitChars[n + 1]>>
ChildKey == <<"c">>

Quoted(k) == <<"\"">> \o k \o <<"\"">>

RECURSIVE ItemsText(_, _, _)
ItemsText(kind, items, n) ==
    IF n > Len(items) THEN <<>>
    ELSE (IF n > 1 THEN <<",">> ELSE <<>>)
         \o (IF kind = "obj" THEN Quoted(MemberKey(n)) \o <<":">> ELSE <<>>)
         \o items[n].text
         \o ItemsText(kind, items, n + 1)

RECURSIVE DocText(_)
DocText(levels) ==
    LET l == levels[1]
        head == <<IF l.kind = "obj" THEN "{" ELSE "[">> \o ItemsText(l.kind, l.items, 1)
    IN  IF Len(levels) = 1 THEN head
        ELSE head
             \o (IF Len(l.items) > 0 THEN <<",">> ELSE <<>>)
             \o (IF l.kind = "obj" THEN Quoted(ChildKey) \o <<":">> ELSE <<>>)
             \o DocText(Tail(levels))

RECURSIVE MembersOf(_, _)
MembersOf(items, n) ==
    IF n = 0 THEN <<>> ELSE MapPut(MembersOf(items, n - 1), MemberKey(n), items[n].v)

RECURSIVE DocValue(_)
DocValue(levels) ==
    LET l == levels[1]
        vals == [n \in 1..Len(l.items) |-> l.items[n].v]
        members == MembersOf(l.items, Len(l.items))
    IN  IF Len(levels) = 1
        THEN IF l.kind = "obj" THEN ObjV(members) ELSE ArrV(vals)
        ELSE IF l.kind = "obj"
             THEN ObjV(MapPut(members, ChildKey, DocValue(Tail(levels))))
             ELSE ArrV(Append(vals, DocValue(Tail(levels))))

\* The innermost open structure holds one or two complete values, an outer
\* one at most one before the open one.
InnerLevels ==
    {[kind |-> k, items |-> <<x>>] : k \in Kinds, x \in CompleteValues}
    \cup {[kind |-> k, items |-> <<x, y>>] : k \in Kinds, x \in CompleteValues, y \in CompleteValues}

OuterLevels ==
    {[kind |-> k, items |-> <<>>] : k \in Kinds}
    \cup {[kind |-> k, items |-> <<x>>] : k \in Kinds, x \in CompleteValues}

TruncatedDocs ==
    LET shapes == {<<i>> : i \in InnerLevels}
                  \cup {<<o, i>> : o \in OuterLevels, i \in InnerLevels}
                  \cup {<<[kind |-> k, items |-> <<>>], o, i>> :
                            k \in Kinds, o \in OuterLevels, i \in InnerLevels}
    IN  {[text |-> DocText(d), v |-> DocValue(d), open |-> Len(d)] : d \in shapes}

Inputs == ShortInputs \cup Examples \cup {d.text : d \in TruncatedDocs}

(***************************************************************************)
(* NewParser (part_001:27-38) and the call of Parse.                       *)
(***************************************************************************)
Init ==
    /\ jsonStr \in Inputs
    /\ index = 0
    /\ context = <<>>
    /\ frames = <<Frame("Parse", "start", Nil, <<>>, 0)>>
    /\ ret = Ret(Nil, FALSE)
    /\ result = Ret(Nil, FALSE)
    /\ done = FALSE
    /\ fault = FALSE
    /\ nullLit = FALSE
    /\ recovered = <<>>

(***************************************************************************)
(* parseJSON (part_001:99-128).                                            *)
(***************************************************************************)
\* A leaf parser is called with the cursor where skipWhitespace left it.
CallLeaf(fn) ==
    LET i1 == skipWhitespace(jsonStr, index)
    IN  /\ index' = i1
        /\ frames' = Call([Top EXCEPT !.pc = "ret"], Frame(fn, "run", Nil, <<>>, i1))
        /\ UNCHANGED <<jsonStr, context, ret, result, done, fault, nullLit, recovered>>

\* Which branch parseJSON takes from here.
Branch ==
    LET g == getChar(jsonStr, skipWhitespace(jsonStr, index), 0)
    IN  IF ~g.ok THEN "end" ELSE Dispatch(g.c, context)

JSONEnd ==
    /\ At("parseJSON", "start") /\ Branch = "end"
    /\ index' = skipWhitespace(jsonStr, index)
    /\ frames' = Popped
    /\ ret' = Ret(Nil, FALSE)
    /\ nullLit' = FALSE
    /\ UNCHANGED <<jsonStr, context, result, done, fault, recovered>>

JSONObject ==
    /\ At("parseJSON", "start") /\ Branch = "object"
    /\ index' = skipWhitespace(jsonStr, index) + 1
    /\ context' = push(context, inObjectKey)
    /\ frames' = Call([Top EXCEPT !.pc = "ret"],
                      Frame("parseObject", "loop", ObjV(<<>>), <<>>, index'))
    /\ UNCHANGED <<jsonStr, ret, result, done, fault, nullLit, recovered>>

JSONArray ==
    /\ At("parseJSON", "start") /\ Branch = "array"
    /\ index' = skipWhitespace(jsonStr, index) + 1
    /\ context' = push(context, inArray)
    /\ frames' = Call([Top EXCEPT !.pc = "ret"],
                      Frame("parseArray", "loop", ArrV(<<>>), <<>>, index'))
    /\ UNCHANGED <<jsonStr, ret, result, done, fault, nullLit, recovered>>

JSONString ==
    /\ At("parseJSON", "start") /\ Branch = "string"
    /\ CallLeaf("parseString")

JSONNumber ==
    /\ At("parseJSON", "start") /\ Branch = "number"
    /\ CallLeaf("parseNumber")

JSONLiteral ==
    /\ At("parseJSON", "start") /\ Branch = "literal"
    /\ CallLeaf("parseBooleanOrNull")

JSONLetter ==
    /\ At("parseJSON", "start") /\ Branch = "letter"
    /\ CallLeaf("parseString")

\* No case matched: p.index++ and return p.parseJSON(), a call in Go.
JSONSkip ==
    /\ At("parseJSON", "start") /\ Branch = "skip"
    /\ index' = skipWhitespace(jsonStr, index) + 1
    /\ frames' = Call([Top EXCEPT !.pc = "ret"], Frame("parseJSON", "start", Nil, <<>>, index'))
    /\ UNCHANGED <<jsonStr, context, ret, result, done, fault, nullLit, recovered>>

\* return of the callee's result to parseJSON's caller.
JSONReturn ==
    /\ At("parseJSON", "ret")
    /\ frames' = Popped
    /\ UNCHANGED <<jsonStr, index, context, ret, result, done, fault, nullLit, recovered>>

(***************************************************************************)
(* The leaf parsers, each run in one step.                                 *)
(***************************************************************************)
StringRun ==
    /\ At("parseString", "run")
    /\ LET r == parseString(jsonStr, index, context)
       IN  /\ index' = r.idx
           /\ ret' = Ret(r.v, r.err)
    /\ frames' = Popped
    /\ nullLit' = FALSE
    /\ UNCHANGED <<jsonStr, context, result, done, fault, recovered>>

NumberRun ==
    /\ At("parseNumber", "run")
    /\ LET r == parseNumber(jsonStr, index)
       IN  /\ index' = r.idx
           /\ ret' = Ret(r.v, r.err)
    /\ frames' = Popped
    /\ nullLit' = FALSE
    /\ UNCHANGED <<jsonStr, context, result, done, fault, recovered>>

\* true, false or null at the cursor; p.jsonStr[p.index:] faults past the end.
LiteralRun ==
    /\ At("parseBooleanOrNull", "run")
    /\ MatchLiteral(jsonStr, index).hit
    /\ LET m == MatchLiteral(jsonStr, index)
       IN  /\ index' = index + m.n
           /\ ret' = Ret(m.v, FALSE)
           /\ nullLit' = (m.v = Nil)
    /\ fault' = (fault \/ index > Len(jsonStr))
    /\ frames' = Popped
    /\ UNCHANGED <<jsonStr, context, result, done, recovered>>

\* None of the three: return p.parseString().
LiteralAsString ==
    /\ At("parseBooleanOrNull", "run")
    /\ ~MatchLiteral(jsonStr, index).hit
    /\ fault' = (fault \/ index > Len(jsonStr))
    /\ frames' = Call([Top EXCEPT !.pc = "ret"], Frame("parseString", "run", Nil, <<>>, index))
    /\ UNCHANGED <<jsonStr, index, context, ret, result, done, nullLit, recovered>>

LiteralReturn ==
    /\ At("parseBooleanOrNull", "ret")
    /\ frames' = Popped
    /\ UNCHANGED <<jsonStr, index, context, ret, result, done, fault, nullLit, recovered>>

(***************************************************************************)
(* parseObject (part_001:131-188).  The push is done by the step that      *)
(* calls it, the deferred pop by ObjectExit.                               *)
(***************************************************************************)
\* The code point the loop head looks at, after skipWhitespace.
LoopHead == getChar(jsonStr, skipWhitespace(jsonStr, index), 0)

ObjectLoopBreak ==
    /\ At("parseObject", "loop")
    /\ ~LoopHead.ok \/ LoopHead.c = "}"
    /\ index' = skipWhitespace(jsonStr, index)
    /\ frames' = Append(Popped, [Top EXCEPT !.pc = "exit"])
    /\ UNCHANGED <<jsonStr, context, ret, result, done, fault, nullLit, recovered>>

ObjectLoopComma ==
    /\ At("parseObject", "loop")
    /\ LoopHead.ok /\ LoopHead.c = ","
    /\ index' = skipWhitespace(jsonStr, index) + 1
    /\ UNCHANGED <<jsonStr, context, frames, ret, result, done, fault, nullLit, recovered>>

\* stack[len-1] = inObjectKey and the call of parseString for the key.
ObjectKey ==
    /\ At("parseObject", "loop")
    /\ LoopHead.ok /\ LoopHead.c \notin {"}", ","}
    /\ index' = skipWhitespace(jsonStr, index)
    /\ fault' = (fault \/ Len(context) = 0)
    /\ context' = IF Len(context) = 0 THEN context ELSE setTop(context, inObjectKey)
    /\ frames' = Call([Top EXCEPT !.pc = "key", !.i0 = index],
                      Frame("parseString", "run", Nil, <<>>, index'))
    /\ UNCHANGED <<jsonStr, ret, result, done, nullLit, recovered>>

\* After the key: the err branch, or the colon and the call for the value.
ObjectAfterKey ==
    /\ At("parseObject", "key")
    /\ LET i1 == skipWhitespace(jsonStr, index)
           g == getChar(jsonStr, i1, 0)
       IN  IF ret.err
           THEN /\ IF g.ok /\ g.c = "}"
                   THEN /\ index' = i1
                        /\ frames' = Append(Popped, [Top EXCEPT !.pc = "exit"])
                   ELSE /\ index' = i1 + 1
                        /\ frames' = Append(Popped, [Top EXCEPT !.pc = "loop"])
                /\ UNCHANGED <<context, fault>>
           ELSE /\ index' = IF g.ok /\ g.c = ":" THEN i1 + 1 ELSE i1
                /\ fault' = (fault \/ Len(context) = 0)
                /\ context' = IF Len(context) = 0 THEN context
                              ELSE setTop(context, inObjectValue)
                /\ frames' = Call([Top EXCEPT !.pc = "value", !.key = ret.v.s],
                                  Frame("parseJSON", "start", Nil, <<>>, index'))
    /\ UNCHANGED <<jsonStr, ret, result, done, nullLit, recovered>>

\* obj[key] = value, then the separator or the closer.
ObjectAfterValue ==
    /\ At("parseObject", "value")
    /\ LET value == IF ret.err THEN StrV(<<>>) ELSE ret.v
           obj == ObjV(MapPut(Top.v.o, Top.key, value))
           i1 == skipWhitespace(jsonStr, index)
           g == getChar(jsonStr, i1, 0)
       IN  /\ index' = IF g.ok /\ g.c = "," THEN i1 + 1 ELSE i1
           /\ frames' = Append(Popped, [Top EXCEPT !.v = obj,
                                  !.pc = IF g.ok /\ g.c = "}" THEN "exit" ELSE "loop"])
    /\ UNCHANGED <<jsonStr, context, ret, result, done, fault, nullLit, recovered>>

ObjectExit ==
    /\ At("parseObject", "exit")
    /\ index' = IF getChar(jsonStr, index, 0).ok /\ getChar(jsonStr, index, 0).c = "}"
                THEN index + 1 ELSE index
    /\ ret' = Ret(Top.v, FALSE)
    /\ nullLit' = FALSE
    /\ context' = pop(context)
    /\ frames' = Popped
    /\ UNCHANGED <<jsonStr, result, done, fault, recovered>>

(***************************************************************************)
(* parseArray (part_001:191-232).                                          *)
(***************************************************************************)
ArrayLoopBreak ==
    /\ At("parseArray", "loop")
    /\ ~LoopHead.ok \/ LoopHead.c = "]"
    /\ index' = skipWhitespace(jsonStr, index)
    /\ frames' = Append(Popped, [Top EXCEPT !.pc = "exit"])
    /\ UNCHANGED <<jsonStr, context, ret, result, done, fault, nullLit, recovered>>

ArrayLoopComma ==
    /\ At("parseArray", "loop")
    /\ LoopHead.ok /\ LoopHead.c = ","
    /\ index' = skipWhitespace(jsonStr, index) + 1
    /\ UNCHANGED <<jsonStr, context, frames, ret, result, done, fault, nullLit, recovered>>

ArrayElement ==
    /\ At("parseArray", "loop")
    /\ LoopHead.ok /\ LoopHead.c \notin {"]", ","}
    /\ index' = skipWhitespace(jsonStr, index)
    /\ frames' = Call([Top EXCEPT !.pc = "value", !.i0 = index],
                      Frame("parseJSON", "start", Nil, <<>>, index'))
    /\ UNCHANGED <<jsonStr, context, ret, result, done, fault, nullLit, recovered>>

ArrayAfterValue ==
    /\ At("parseArray", "value")
    /\ LET i1 == skipWhitespace(jsonStr, index)
           g == getChar(jsonStr, i1, 0)
       IN  IF ret.err
           THEN IF g.ok /\ g.c = "]"
                THEN /\ index' = i1
                     /\ frames' = Append(Popped, [Top EXCEPT !.pc = "exit"])
                ELSE /\ index' = i1 + 1
                     /\ frames' = Append(Popped, [Top EXCEPT !.pc = "loop"])
           ELSE /\ index' = IF g.ok /\ g.c = "," THEN i1 + 1 ELSE i1
                /\ frames' = Append(Popped, [Top EXCEPT !.v = ArrV(Append(Top.v.a, ret.v)),
                                       !.pc = IF g.ok /\ g.c = "]" THEN "exit" ELSE "loop"])
    /\ UNCHANGED <<jsonStr, context, ret, result, done, fault, nullLit, recovered>>

ArrayExit ==
    /\ At("parseArray", "exit")
    /\ index' = IF getChar(jsonStr, index, 0).ok /\ getChar(jsonStr, index, 0).c = "]"
                THEN index + 1 ELSE index
    /\ ret' = Ret(Top.v, FALSE)
    /\ nullLit' = FALSE
    /\ context' = pop(context)
    /\ frames' = Popped
    /\ UNCHANGED <<jsonStr, result, done, fault, recovered>>

(***************************************************************************)
(* Parse (part_001:67-96).  recovered is a history variable: the values    *)
(* the top-level parseJSON calls came back with, a null literal included,  *)
(* the nil of end-of-input not.                                            *)
(***************************************************************************)
Recorded == IF ret.v # Nil \/ nullLit THEN Append(recovered, ret.v) ELSE recovered

\* Parse returns (v, err) to its caller.
Return(v, err) ==
    /\ result' = Ret(v, err)
    /\ done' = TRUE
    /\ frames' = Popped

ParseStart ==
    /\ At("Parse", "start")
    /\ frames' = Call([Top EXCEPT !.pc = "first"], Frame("parseJSON", "start", Nil, <<>>, index))
    /\ UNCHANGED <<jsonStr, index, context, ret, result, done, fault, nullLit, recovered>>

\* The first value is all there is (or parseJSON failed).
ParseFirstOnly ==
    /\ At("Parse", "first")
    /\ ret.err \/ skipWhitespace(jsonStr, index) >= Len(jsonStr)
    /\ index' = IF ret.err THEN index ELSE skipWhitespace(jsonStr, index)
    /\ IF ret.err THEN Return(Nil, TRUE) ELSE Return(ret.v, FALSE)
    /\ recovered' = Recorded
    /\ UNCHANGED <<jsonStr, context, ret, fault, nullLit>>

\* Input remains: results := []interface{}{json}.
ParseFirstMore ==
    /\ At("Parse", "first")
    /\ ~ret.err /\ skipWhitespace(jsonStr, index) < Len(jsonStr)
    /\ index' = skipWhitespace(jsonStr, index)
    /\ frames' = Append(Popped, [Top EXCEPT !.pc = "multi", !.v = ArrV(<<ret.v>>)])
    /\ recovered' = Recorded
    /\ UNCHANGED <<jsonStr, context, ret, result, done, fault, nullLit>>

ParseMultiNext ==
    /\ At("Parse", "multi")
    /\ index < Len(jsonStr) /\ skipWhitespace(jsonStr, index) # Len(jsonStr)
    /\ index' = skipWhitespace(jsonStr, index)
    /\ frames' = Call([Top EXCEPT !.pc = "next", !.i0 = index],
                      Frame("parseJSON", "start", Nil, <<>>, index'))
    /\ UNCHANGED <<jsonStr, context, ret, result, done, fault, nullLit, recovered>>

\* results = append(results, nextJSON), or p.index++.
ParseMultiAppend ==
    /\ At("Parse", "next")
    /\ IF ~ret.err /\ ret.v # Nil
       THEN /\ frames' = Append(Popped, [Top EXCEPT !.pc = "multi",
                                              !.v = ArrV(Append(Top.v.a, ret.v))])
            /\ index' = index
       ELSE /\ frames' = Append(Popped, [Top EXCEPT !.pc = "multi"])
            /\ index' = index + 1
    /\ recovered' = Recorded
    /\ UNCHANGED <<jsonStr, context, ret, result, done, fault, nullLit>>

\* The loop is left: one result is returned bare, more as the slice.
ParseMultiFinish ==
    /\ At("Parse", "multi")
    /\ index >= Len(jsonStr) \/ skipWhitespace(jsonStr, index) = Len(jsonStr)
    /\ index' = IF index < Len(jsonStr) THEN skipWhitespace(jsonStr, index) ELSE index
    /\ IF Len(Top.v.a) = 1 THEN Return(Top.v.a[1], FALSE) ELSE Return(Top.v, FALSE)
    /\ UNCHANGED <<jsonStr, context, ret, fault, nullLit, recovered>>

Next ==
    \/ ParseStart \/ ParseFirstOnly \/ ParseFirstMore
    \/ ParseMultiNext \/ ParseMultiAppend \/ ParseMultiFinish
    \/ JSONEnd \/ JSONObject \/ JSONArray \/ JSONString \/ JSONNumber
    \/ JSONLiteral \/ JSONLetter \/ JSONSkip \/ JSONReturn
    \/ StringRun \/ NumberRun \/ LiteralRun \/ LiteralAsString \/ LiteralReturn
    \/ ObjectLoopBreak \/ ObjectLoopComma \/ ObjectKey \/ ObjectAfterKey
    \/ ObjectAfterValue \/ ObjectExit
    \/ ArrayLoopBreak \/ ArrayLoopComma \/ ArrayElement \/ ArrayAfterValue \/ ArrayExit

Spec == Init /\ [][Next]_vars

(***************************************************************************)
(* Views of a state used by the properties below.                          *)
(***************************************************************************)
IsStructure(f) == f.fn \in {"parseObject", "parseArray"}

\* The frames of the objects/arrays now open, outermost first.
StructFrames == SelectSeq(frames, IsStructure)

IsDispatcher(f) == f.fn = "parseJSON"

DispatcherFrames == SelectSeq(frames, IsDispatcher)

(***************************************************************************)
(* C1.  Recovery never fails: on every input Parse returns a nil error     *)
(* and no read leaves the input buffer or the context stack; the cursor    *)
(* ends at most one past the end of the input.                             *)
(***************************************************************************)
\* C1: no fault, no error, the cursor and the reads stay in range.
C1_RecoveryNeverFails ==
    /\ ~fault
    /\ ~ret.err
    /\ ~result.err
    /\ index <= Len(jsonStr) + 1
    /\ (Len(frames) > 0 /\ Top.fn = "parseBooleanOrNull" /\ Top.pc = "run") =>
           index <= Len(jsonStr)
    /\ (Len(frames) > 0 /\ Top.fn = "parseObject") => Len(context) > 0

\* Garbage to the end of the input: the cursor went one past it, no fault.
C1_Witness ==
    /\ done /\ ~result.err /\ ~fault
    /\ index = Len(jsonStr) + 1
    /\ jsonStr = ExGarbageRun

(***************************************************************************)
(* C2.  Missing closers: for a valid JSON document cut off right after a   *)
(* complete element or member value, with k >= 1 objects/arrays open,      *)
(* Parse returns the one value in which every open object/array is closed  *)
(* and holds exactly the complete members/elements, nested as in the       *)
(* input; the example of example/main.go gives name, age and courses.      *)
(***************************************************************************)
ExMissingClosersValue ==
    ObjV(<<[k |-> <<"n", "a", "m", "e">>,
            v |-> StrV(<<"J", "o", "h", "n", " ", "D", "o", "e">>)],
           [k |-> <<"a", "g", "e">>, v |-> IntV(<<"3", "0">>)],
           [k |-> <<"c", "o", "u", "r", "s", "e", "s">>,
            v |-> ArrV(<<StrV(<<"M", "a", "t", "h">>),
                        StrV(<<"S", "c", "i", "e", "n", "c", "e">>)>>)]>>)

\* C2: a truncated valid document comes back closed, with its complete entries.
C2_MissingClosersTolerated ==
    done =>
        /\ \A d \in TruncatedDocs : jsonStr = d.text => result = Ret(d.v, FALSE)
        /\ jsonStr = ExMissingClosers => result = Ret(ExMissingClosersValue, FALSE)

(***************************************************************************)
(* C3.  Leading prose in front of the first "{" contributes nothing: for   *)
(* both prose examples Parse returns the single object                     *)
(* {result: "success", code: 200}.                                         *)
(***************************************************************************)
ExProseValue ==
    ObjV(<<[k |-> <<"r", "e", "s", "u", "l", "t">>,
            v |-> StrV(<<"s", "u", "c", "c", "e", "s", "s">>)],
           [k |-> <<"c", "o", "d", "e">>, v |-> IntV(<<"2", "0", "0">>)]>>)

C3_LeadingProseDiscarded ==
    (done /\ jsonStr \in {ExProseJSON, ExProseResponse}) => result = Ret(ExProseValue, FALSE)

(***************************************************************************)
(* C4.  Multi-value recovery: the result holds every top-level value the   *)
(* dispatcher recovered, null literals included, once each and in order;   *)
(* one value is returned bare, more as the sequence.                       *)
(***************************************************************************)
C4_MultiValueRecovery ==
    (done /\ Len(recovered) > 0) =>
        result.v = IF Len(recovered) = 1 THEN recovered[1] ELSE ArrV(recovered)

(***************************************************************************)
(* C5.  The cursor never decreases and makes strict progress: a dispatcher *)
(* call that began before end-of-input returns with the cursor further     *)
(* on, and so does every iteration of the object loop, the array loop and  *)
(* the multi-value loop.                                                   *)
(*                                                                         *)
(* As amended: in the object loop and the array loop this holds of every   *)
(* iteration that goes round again; the iteration that finds end-of-input  *)
(* or the closer at the loop head breaks out with the cursor where it was. *)
(***************************************************************************)
\* A step that returns from a dispatcher call.
C5_DispatcherReturns ==
    Len(frames) > 0 /\ Top.fn = "parseJSON" /\ frames' = Popped

\* A step of the innermost object/array loop that ends an iteration at pc.
C5_StructIterationEnds(pc) ==
    /\ Len(frames) > 0 /\ Len(frames') = Len(frames)
    /\ Top.fn \in {"parseObject", "parseArray"}
    /\ Top.pc \in {"loop", "key", "value"}
    /\ frames'[Len(frames)].pc = pc

\* A step of Parse that ends an iteration of the multi-value loop.
C5_MultiIterationEnds ==
    /\ Len(frames) > 0 /\ Top.fn = "Parse"
    /\ \/ Top.pc = "next" /\ Len(frames') = Len(frames)
       \/ Top.pc = "multi" /\ index < Len(jsonStr) /\ done'

\* The cursor when the iteration that this step ends began.
C5_IterationStart == IF Top.pc \in {"loop", "multi"} THEN index ELSE Top.i0

ExUnclosedStringValue ==
    ObjV(<<[k |-> <<"m", "e", "s", "s", "a", "g", "e">>,
            v |-> StrV(<<"H", "e", "l", "l", "o", " ", "W", "o", "r", "l", "d">>)],
           [k |-> <<"s", "t", "a", "t", "u", "s">>, v |-> StrV(<<"o", "k">>)]>>)

C6_UnclosedStringClosedAtSeparator ==
    (done /\ jsonStr = ExUnclosedString) => result = Ret(ExUnclosedStringValue, FALSE)

(***************************************************************************)
(* C7.  A quote-missing string ends at end-of-input or on the first        *)
(* unescaped terminator the top of the context stack chooses (":" for      *)
(* ObjectKey; "," "}" "]" for ObjectValue and Array; all four with an      *)
(* empty stack); the terminator is not consumed, the context stack is      *)
(* unchanged, and the result is the scanned text less its trailing         *)
(* whitespace (space, tab, line feed, carriage return; stated for scans    *)
(* without a backslash).  The two examples give their keys and elements.   *)
(***************************************************************************)
C7_Terminators(stack) ==
    IF Len(stack) = 0 THEN {",", "}", "]", ":"}
    ELSE IF stack[Len(stack)] = "inObjectKey" THEN {":"}
    ELSE {",", "}", "]"}

RECURSIVE C7_BackslashesBefore(_, _)
\* The backslashes that end right before 0-based position j, back to from.
C7_BackslashesBefore(j, from) ==
    IF j > from /\ jsonStr[j] = "\\" THEN 1 + C7_BackslashesBefore(j - 1, from) ELSE 0

C7_Escaped(j, from) == C7_BackslashesBefore(j, from) % 2 = 1

RECURSIVE C7_Trimmed(_)
C7_Trimmed(txt) ==
    IF Len(txt) > 0 /\ txt[Len(txt)] \in {" ", "\t", "\n", "\r"}
    THEN C7_Trimmed(SubSeq(txt, 1, Len(txt) - 1))
    ELSE txt

\* The 0-based position at which the string parser about to run starts.
C7_Start == skipWhitespace(jsonStr, index)

C7_QuoteMissingRuns ==
    /\ Len(frames) > 0 /\ Top.fn = "parseString" /\ Top.pc = "run"
    /\ C7_Start < Len(jsonStr)
    /\ jsonStr[C7_Start + 1] \notin {"\"", "'"}

ExUnquotedKeysValue ==
    ObjV(<<[k |-> <<"n", "a", "m", "e">>, v |-> StrV(<<"A", "l", "i", "c", "e">>)],
           [k |-> <<"a", "g", "e">>, v |-> IntV(<<"3", "0">>)],
           [k |-> <<"a", "c", "t", "i", "v", "e">>, v |-> BoolV(TRUE)]>>)

ExMixedArrayValue ==
    ArrV(<<StrV(<<"s", "t", "r", "i", "n", "g", "1">>), StrV(<<"i", "t", "e", "m", "2">>),
           IntV(<<"3">>), StrV(<<"i", "t", "e", "m", "4">>)>>)

C8_MarkerFits(f, marker) ==
    IF f.fn = "parseArray" THEN marker = "inArray"
    ELSE CASE f.pc = "key" -> marker = "inObjectKey"
           [] f.pc = "value" -> marker = "inObjectValue"
           [] OTHER -> marker \in {"inObjectKey", "inObjectValue"}

\* C8: depth, markers and the empty stack at the end.
C8_ContextStackInvariant ==
    /\ Len(context) = Len(StructFrames)
    /\ \A n \in 1..Len(StructFrames) :
           n <= Len(context) => C8_MarkerFits(StructFrames[n], context[n])
    /\ done => context = <<>>

\* Four levels open in the deep-nesting example, the array innermost.
C8_Witness ==
    /\ jsonStr = ExDeepNesting
    /\ context = <<"inObjectValue", "inObjectValue", "inObjectValue", "inArray">>
    /\ Len(frames) > 0 /\ Top.fn = "parseString"

(***************************************************************************)
(* C9.  Separators and closers are consumed only by the loop of their own  *)
(* structure: inside an object or array the dispatcher's garbage skip      *)
(* never steps over "," "}" or "]"; a member with a missing value does not *)
(* take the next key as its value, and a value after an inner closer is    *)
(* not placed in the inner structure.                                      *)
(***************************************************************************)
\* A frame of parseJSON that skipped the code point before its callee's start.
C9_SkippedCloser ==
    \E n \in 1..(Len(frames) - 1) :
        /\ frames[n].fn = "parseJSON" /\ frames[n].pc = "ret"
        /\ frames[n + 1].fn = "parseJSON"
        /\ Len(context) > 0
        /\ jsonStr[frames[n + 1].i0] \in {",", "}", "]"}

ExInnerGarbageValue == ArrV(<<ArrV(<<IntV(<<"1">>)>>), IntV(<<"2">>)>>)

\* C9: no closer or separator is skipped inside a structure.
C9_ClosersLeftToTheirLoop ==
    /\ ~C9_SkippedCloser
    /\ (done /\ jsonStr = ExInnerGarbage) => result = Ret(ExInnerGarbageValue, FALSE)

(***************************************************************************)
(* C10.  Recursion depth is bounded by structural nesting: skipping        *)
(* garbage adds no active call, so the dispatcher is active at most once   *)
(* per open object/array plus once.                                        *)
(***************************************************************************)
C10_DepthBoundedByNesting == Len(DispatcherFrames) <= Len(StructFrames) + 1

====
